---- MODULE Spec2Model ----
(***************************************************************************)
(* Model of the elevation pipeline of 3D-Elevation-Cross-Section:          *)
(*   main.py                      load_data -> API_call -> store_plot      *)
(*   ElevationPlot/data_manager.py  grid generation, fetch, _get, cache    *)
(*                                                                         *)
(* Numbers.  Degrees are fixed-point integers in units of 1e-4 degree, so  *)
(* that the constants of main.py are exact.  A Python str is modelled as   *)
(* the record [str |-> n]; a number is a plain integer.  str() and float() *)
(* convert between the two.  An elevation of the JSON response is either   *)
(* <<v>> (a number) or <<>> (null / None), in data and in Z alike.         *)
(*                                                                         *)
(* Time.  time.time() is the variable now, in ticks; OneSecond ticks make  *)
(* the literal 1 of lines 144 and 154.  The clock is read only at lines    *)
(* 144, 154 and 170, so time that passes anywhere else is folded into the  *)
(* time a request is in flight (Tick) or the busy wait spins (WaitSpin).   *)
(***************************************************************************)
EXTENDS Integers, Sequences, FiniteSets, TLC

\* ---------------------------------------------------------------- bounds
MaxRuns == 2
MaxClock == 5
OneSecond == 2
MaxRows == 2

\* ------------------------------------------------------ program constants
RETRIES == 10
BATCH_SIZE == 100

CSV_HEADER == <<"Lat(X)", "Lng(Y)", "Elevation(Z)">>
PlotName == "mt_st_helens"
PlotNames == {PlotName}

\* main.py:11-12, in units of 1e-4 degree
CenterCoords == <<461914, -1221956>>
Width == 750
Height == 750

\* (horizontal_data_points, vertical_data_points) passed to API_call
GridDims == {<<-1, 1>>, <<0, 1>>, <<1, 1>>, <<2, 1>>, <<50, 2>>, <<51, 2>>,
             <<201, 1>>}

\* --------------------------------------------------------- conversions
str(v) == [str |-> v]

float(s) == s.str

\* round(x, 7): the fixed-point unit (1e-4) is coarser than 1e-7
round7(x) == x

NoFile == [exists |-> FALSE, header |-> <<>>, rows |-> <<>>]

NoResponse == [kind |-> "none", results |-> <<>>]

\* ------------------------------------------------------ grid generation
\* np.linspace(start, stop, num): num values, both endpoints included
linspace(start, stop, num) ==
    [k \in 1..num |-> IF num = 1 THEN start
                      ELSE start + ((k - 1) * (stop - start)) \div (num - 1)]

\* np.linspace raises ValueError for num < 0; the inner linspace (line 114)
\* runs once per value of the outer one (line 112)
GridFails(h, v) == v < 0 \/ (v > 0 /\ h < 0)

RECURSIVE Concat(_)
Concat(ss) == IF ss = <<>> THEN <<>> ELSE Head(ss) \o Concat(Tail(ss))

\* fetch_format_from_to with the two loops the other way round
fetch_format_from_to_ColumnMajor(from_coords, to_coords, h, v) ==
    LET ys == linspace(from_coords[2], to_coords[2], v)
        xs == linspace(from_coords[1], to_coords[1], h)
    IN  Concat([j \in 1..Len(xs) |->
                  [i \in 1..Len(ys) |-> <<str(round7(xs[j])), str(ys[i])>>]])

fetch_format_from_to(from_coords, to_coords, h, v) ==
    LET ys == linspace(from_coords[2], to_coords[2], v)
        xs == linspace(from_coords[1], to_coords[1], h)
    IN  Concat([i \in 1..Len(ys) |->
                  [j \in 1..Len(xs) |-> <<str(round7(xs[j])), str(ys[i])>>]])

fetch_format_around(center_coords, h, v, width, height) ==
    LET from_coords == <<center_coords[1] - width \div 2,
                         center_coords[2] - height \div 2>>
        to_coods == <<center_coords[1] + width \div 2,
                      center_coords[2] + height \div 2>>
    IN  fetch_format_from_to(from_coords, to_coods, h, v)

\* ------------------------------------------------------------ transport
\* The elevation the provider has for a location (any fixed function).
Elevation(c) == (float(c[1]) + float(c[2])) % 1000

\* The JSON body of a 200 answer: one result per coordinate of the URL, in
\* the order sent; with missing = k > 0 the k-th elevation is null.
Results(url, missing) ==
    [k \in 1..Len(url) |->
       [location |-> [lat |-> float(url[k][1]), lng |-> float(url[k][2])],
        elevation |-> IF k = missing THEN <<>> ELSE <<Elevation(url[k])>>]]

\* ------------------------------------------------- helpers of fetch/main
\* line 144: timer = time.time() - 1
InitialTimer_NoHeadStart(t) == t
InitialTimer(t) == t - OneSecond

\* line 150: if index % 100 == 0
IsFlushIndex_EndOfBatch(i) == (i + 1) % BATCH_SIZE = 0
IsFlushIndex(i) == i % BATCH_SIZE = 0

\* line 154: while time.time() - timer < 1
MustWait(t, tm) == t - tm < OneSecond

\* line 156: for _ in range(RETRIES), tried = attempts already made
HasTriesLeft_OneMore(tried) == tried < RETRIES + 1
HasTriesLeft_None(tried) == tried < 1
HasTriesLeft(tried) == tried < RETRIES

\* line 165: all(map(lambda r: r['elevation'] != None, response['results']))
AllElevationsPresent_Unchecked(results) == TRUE
AllElevationsPresent(results) ==
    \A k \in 1..Len(results) : results[k].elevation # <<>>

\* lines 88-99
plot_format(resp) ==
    <<[k \in 1..Len(resp) |-> resp[k].location.lat],
      [k \in 1..Len(resp) |-> resp[k].location.lng],
      [k \in 1..Len(resp) |-> resp[k].elevation]>>

\* ShouldWrite with the overwrite flag ignored
ShouldWrite_AlwaysOverwrite(X, Y, Z, file, overwrite) ==
    Len(X) = Len(Y) /\ Len(Y) = Len(Z)

\* lines 16-34: the record store_plot leaves, and its return value
ShouldWrite(X, Y, Z, file, overwrite) ==
    Len(X) = Len(Y) /\ Len(Y) = Len(Z) /\ (overwrite \/ ~file.exists)

store_plot(X, Y, Z, file, overwrite) ==
    IF ShouldWrite(X, Y, Z, file, overwrite)
    THEN [exists |-> TRUE, header |-> CSV_HEADER,
          rows |-> [i \in 1..Len(X) |-> <<str(X[i]), str(Y[i]), str(Z[i])>>]]
    ELSE file

\* load_data skipping one row too many (index > 1)
load_data_SkipFirstRow(file) ==
    <<[i \in 1..(Len(file.rows) - 1) |-> float(file.rows[i + 1][1])],
      [i \in 1..(Len(file.rows) - 1) |-> float(file.rows[i + 1][2])],
      [i \in 1..(Len(file.rows) - 1) |-> float(file.rows[i + 1][3])]>>

\* lines 37-55: the columns load_data parses out of an existing record
load_data(file) ==
    <<[i \in 1..Len(file.rows) |-> float(file.rows[i][1])],
      [i \in 1..Len(file.rows) |-> float(file.rows[i][2])],
      [i \in 1..Len(file.rows) |-> float(file.rows[i][3])]>>

\* main.py:5: if (coords := manager.load_data(...)), a tuple is truthy
CacheHit_Never(file) == FALSE
CacheHit(file) == file.exists

\* ---------------------------------------------------------------- state
VARIABLES
    files,        \* data/<plot_name>.csv for each plot name
    pc,           \* position of the main script
    run,          \* runs of main.py started so far
    now,          \* time.time()
    coords,       \* fetch: the parameter coords
    index,        \* fetch: coordinates consumed by the for loop so far
    coords_url,   \* fetch: coordinates in coords_url
    data,         \* fetch: data
    timer,        \* fetch: timer
    tried,        \* fetch: attempts made by the retry loop for this batch
    response,     \* fetch: response
    outcome,      \* how the run ended: "none", "returned" or the exception
    XYZ,          \* main: X, Y, Z
    \* history, not read by any guard of the program
    dims,         \* (nx, ny) of the run
    filesAtStart, \* files when the run started
    writes,       \* records written during the run
    nreq,         \* requests issued during the fetch
    reqStart,     \* time the most recent request was issued
    spins,        \* ticks spent in the busy wait for this batch
    fails,        \* non-200 answers to this batch
    allOk,        \* every answer of this fetch was a complete 200
    badAt,        \* nreq when the fatal answer arrived, 0 if none
    badKind,      \* the fatal answer: "none", "missing" or "exhausted"
    sentCoords,   \* the coordinates of the batches requested, in order
    maxBatch,     \* the largest number of coordinates in one request
    \* a caller of store_plot and a caller of load_data on the same name
    wpc,          \* store_plot: "idle", "writing", "returned", "interrupted"
    wargs,        \* store_plot: X, Y, Z and overwrite of the call
    wlines,       \* store_plot: lines handed to the csv writer so far
    wret,         \* store_plot: the value returned
    prevFile,     \* the record when store_plot was called (history)
    rres,         \* load_data: the value returned last
    rmid          \* that load_data ran while store_plot was writing (history)

vars == <<files, pc, run, now, coords, index, coords_url, data, timer, tried,
          response, outcome, XYZ, dims, filesAtStart, writes, nreq,
          reqStart, spins, fails, allOk, badAt, badKind, sentCoords,
          maxBatch, wpc, wargs, wlines, wret, prevFile, rres, rmid>>

progVars == <<coords, index, coords_url, data, timer, tried, response>>
histVars == <<dims, filesAtStart, writes, nreq, reqStart, spins, fails,
              allOk, badAt, badKind, sentCoords, maxBatch>>

reqHist == <<sentCoords, maxBatch>>

cacheVars == <<wpc, wargs, wlines, wret, prevFile, rres, rmid>>

pipeVars == <<pc, run, now, progVars, outcome, XYZ, histVars>>

NoArgs == [X |-> <<>>, Y |-> <<>>, Z |-> <<>>, overwrite |-> TRUE]

NoResult == [called |-> FALSE, hit |-> FALSE, cols |-> <<<<>>, <<>>, <<>>>>]

Init ==
    /\ files = [n \in PlotNames |-> NoFile]
    /\ pc = "start"
    /\ run = 0
    /\ now = 0
    /\ coords = <<>>
    /\ index = 0
    /\ coords_url = <<>>
    /\ data = <<>>
    /\ timer = 0
    /\ tried = 0
    /\ response = NoResponse
    /\ outcome = "none"
    /\ XYZ = <<<<>>, <<>>, <<>>>>
    /\ dims = <<0, 0>>
    /\ filesAtStart = [n \in PlotNames |-> NoFile]
    /\ writes = 0
    /\ nreq = 0
    /\ reqStart = 0
    /\ spins = 0
    /\ fails = 0
    /\ allOk = TRUE
    /\ badAt = 0
    /\ badKind = "none"
    /\ sentCoords = <<>>
    /\ maxBatch = 0
    /\ wpc = "idle"
    /\ wargs = NoArgs
    /\ wlines = 0
    /\ wret = FALSE
    /\ prevFile = NoFile
    /\ rres = NoResult
    /\ rmid = FALSE

\* ------------------------------------------------------------- actions
\* main.py:5-7: load_data; on a hit X, Y, Z are the record's columns
LoadData ==
    /\ pc = "start"
    /\ run < MaxRuns
    /\ run' = run + 1
    /\ filesAtStart' = files
    /\ IF CacheHit(files[PlotName])
       THEN /\ XYZ' = load_data(files[PlotName])
            /\ outcome' = "returned"
            /\ pc' = "done"
       ELSE /\ XYZ' = <<<<>>, <<>>, <<>>>>
            /\ outcome' = "none"
            /\ pc' = "api_call"
    /\ coords' = <<>> /\ index' = 0 /\ coords_url' = <<>> /\ data' = <<>>
    /\ tried' = 0 /\ response' = NoResponse
    /\ writes' = 0 /\ nreq' = 0 /\ spins' = 0 /\ fails' = 0
    /\ allOk' = TRUE /\ badAt' = 0 /\ badKind' = "none"
    /\ sentCoords' = <<>> /\ maxBatch' = 0
    /\ UNCHANGED <<cacheVars, files, now, timer, dims, reqStart>>

\* main.py:11, API_call lines 70-80, fetch lines 142-147
APICall ==
    /\ pc = "api_call"
    /\ \E d \in GridDims :
         /\ dims' = d
         /\ IF GridFails(d[1], d[2])
            THEN /\ coords' = <<>>
                 /\ timer' = timer
                 /\ pc' = "raised"
                 /\ outcome' = "ValueError"
            ELSE /\ coords' = fetch_format_around(CenterCoords, d[1], d[2],
                                                  Width, Height)
                 /\ timer' = InitialTimer(now)
                 /\ pc' = "loop"
                 /\ outcome' = outcome
    /\ coords_url' = <<>>
    /\ data' = <<>>
    /\ index' = 0
    /\ UNCHANGED <<cacheVars, reqHist, files, run, now, tried, response, XYZ,
                   filesAtStart, writes, nreq, reqStart, spins, fails,
                   allOk, badAt, badKind>>

\* fetch lines 148-152: one iteration of the for loop up to the flush test
LoopIter ==
    /\ pc = "loop"
    /\ index < Len(coords)
    /\ coords_url' = Append(coords_url, coords[index + 1])
    /\ IF IsFlushIndex(index)
       THEN /\ pc' = "wait"
            /\ index' = index
            /\ tried' = 0
            /\ fails' = 0
            /\ spins' = 0
       ELSE /\ pc' = "loop"
            /\ index' = index + 1
            /\ UNCHANGED <<tried, fails, spins>>
    /\ UNCHANGED <<cacheVars, reqHist, files, run, now, coords, data, timer, response, outcome,
                   XYZ, dims, filesAtStart, writes, nreq, reqStart,
                   allOk, badAt, badKind>>

\* fetch line 154-155: the busy wait spins while the clock advances (the
\* wait lasts at most OneSecond ticks, so it needs no bound of its own)
WaitSpin ==
    /\ pc = "wait"
    /\ MustWait(now, timer)
    /\ now' = now + 1
    /\ spins' = spins + 1
    /\ UNCHANGED <<cacheVars, reqHist, files, pc, run, progVars, outcome, XYZ, dims,
                   filesAtStart, writes, nreq, reqStart, fails, allOk, badAt, badKind>>

\* fetch line 154: the wait is over
WaitExit ==
    /\ pc = "wait"
    /\ ~MustWait(now, timer)
    /\ pc' = "request"
    /\ UNCHANGED <<cacheVars, files, run, now, progVars, outcome, XYZ, histVars>>

\* fetch line 157, _get line 187: requests.get is issued
Request ==
    /\ pc = "request"
    /\ tried' = tried + 1
    /\ nreq' = nreq + 1
    /\ reqStart' = now
    /\ sentCoords' = IF tried = 0 THEN sentCoords \o coords_url ELSE sentCoords
    /\ maxBatch' = IF Len(coords_url) > maxBatch THEN Len(coords_url)
                   ELSE maxBatch
    /\ pc' = "inflight"
    /\ UNCHANGED <<cacheVars, files, run, now, coords, index, coords_url, data, timer,
                   response, outcome, XYZ, dims, filesAtStart, writes,
                   spins, fails, allOk, badAt, badKind>>

\* time passes while the request is in flight
Tick ==
    /\ pc = "inflight"
    /\ now < MaxClock
    /\ now' = now + 1
    /\ UNCHANGED <<cacheVars, files, pc, run, progVars, outcome, XYZ, histVars>>

\* _get lines 188-189, fetch lines 157-158: status 200, the body is a dict
ResponseDict ==
    /\ pc = "inflight"
    /\ \E missing \in {0, 1, Len(coords_url)} :
         /\ response' = [kind |-> IF missing = 0 THEN "ok" ELSE "missing",
                         results |-> Results(coords_url, missing)]
         /\ allOk' = (allOk /\ missing = 0)
         /\ badAt' = IF missing = 0 THEN badAt ELSE nreq
         /\ badKind' = IF missing = 0 THEN badKind ELSE "missing"
    /\ pc' = "check"
    /\ UNCHANGED <<cacheVars, reqHist, files, run, now, coords, index, coords_url, data, timer,
                   tried, outcome, XYZ, dims, filesAtStart, writes,
                   nreq, reqStart, spins, fails>>

\* ResponseStatus with the exhausted retry loop returning what it has
ResponseStatus_GiveUpQuietly ==
    /\ pc = "inflight"
    /\ response' = [kind |-> "status", results |-> <<>>]
    /\ fails' = fails + 1
    /\ allOk' = FALSE
    /\ badAt' = IF fails + 1 = RETRIES THEN nreq ELSE badAt
    /\ badKind' = IF fails + 1 = RETRIES THEN "exhausted" ELSE badKind
    /\ IF HasTriesLeft(tried)
       THEN /\ pc' = "request"
            /\ outcome' = outcome
            /\ XYZ' = XYZ
       ELSE /\ pc' = "store"
            /\ outcome' = "returned"
            /\ XYZ' = plot_format(data)
    /\ UNCHANGED <<cacheVars, reqHist, files, run, now, coords, index, coords_url, data,
                   timer, tried, dims, filesAtStart, writes, nreq,
                   reqStart, spins>>

\* _get lines 190-193, fetch lines 156-160: a status other than 200 comes
\* back as an int; the retry loop goes round or runs out
ResponseStatus ==
    /\ pc = "inflight"
    /\ response' = [kind |-> "status", results |-> <<>>]
    /\ fails' = fails + 1
    /\ allOk' = FALSE
    /\ badAt' = IF fails + 1 = RETRIES THEN nreq ELSE badAt
    /\ badKind' = IF fails + 1 = RETRIES THEN "exhausted" ELSE badKind
    /\ IF HasTriesLeft(tried)
       THEN /\ pc' = "request"
            /\ outcome' = outcome
       ELSE /\ pc' = "raised"
            /\ outcome' = "TimeoutError"
    /\ UNCHANGED <<cacheVars, reqHist, files, run, now, coords, index, coords_url, data, timer,
                   tried, XYZ, dims, filesAtStart, writes, nreq,
                   reqStart, spins>>

\* _get line 187: requests.get raises; nothing catches it
ResponseException ==
    /\ pc = "inflight"
    /\ response' = [kind |-> "exception", results |-> <<>>]
    /\ allOk' = FALSE
    /\ pc' = "raised"
    /\ outcome' = "ConnectionError"
    /\ UNCHANGED <<cacheVars, reqHist, files, run, now, coords, index, coords_url, data, timer,
                   tried, XYZ, dims, filesAtStart, writes, nreq,
                   reqStart, spins, fails, badAt, badKind>>

\* Check with a missing elevation treated as one more retryable failure
Check_RetryOnMissing ==
    /\ pc = "check"
    /\ IF AllElevationsPresent(response.results)
       THEN /\ data' = data \o response.results
            /\ timer' = now
            /\ coords_url' = <<>>
            /\ index' = index + 1
            /\ pc' = "loop"
            /\ outcome' = outcome
       ELSE /\ pc' = IF HasTriesLeft(tried) THEN "request" ELSE "raised"
            /\ outcome' = IF HasTriesLeft(tried) THEN outcome ELSE "ValueError"
            /\ UNCHANGED <<data, timer, coords_url, index>>
    /\ response' = NoResponse
    /\ UNCHANGED <<cacheVars, files, run, now, coords, tried, XYZ, histVars>>

\* fetch lines 161-171: validate the answer, extend data, reset the timer
Check ==
    /\ pc = "check"
    /\ IF AllElevationsPresent(response.results)
       THEN /\ data' = data \o response.results
            /\ timer' = now
            /\ coords_url' = <<>>
            /\ index' = index + 1
            /\ pc' = "loop"
            /\ outcome' = outcome
       ELSE /\ pc' = "raised"
            /\ outcome' = "ValueError"
            /\ UNCHANGED <<data, timer, coords_url, index>>
    /\ response' = NoResponse
    /\ UNCHANGED <<cacheVars, files, run, now, coords, tried, XYZ, histVars>>

\* fetch lines 172-176, API_call lines 82-83: the loop is over
Return ==
    /\ pc = "loop"
    /\ index >= Len(coords)
    /\ XYZ' = plot_format(data)
    /\ outcome' = "returned"
    /\ pc' = "store"
    /\ UNCHANGED <<cacheVars, files, run, now, progVars, histVars>>

\* main.py:14: store_plot(X, Y, Z, 'mt_st_helens')
StorePlot ==
    /\ pc = "store"
    /\ files' = [files EXCEPT ![PlotName] =
                   store_plot(XYZ[1], XYZ[2], XYZ[3], files[PlotName], TRUE)]
    /\ writes' = IF ShouldWrite(XYZ[1], XYZ[2], XYZ[3], files[PlotName], TRUE)
                 THEN writes + 1 ELSE writes
    /\ pc' = "done"
    /\ UNCHANGED <<cacheVars, reqHist, run, now, progVars, outcome, XYZ, dims, filesAtStart,
                   nreq, reqStart, spins, fails, allOk, badAt, badKind>>

\* the script is run again
NewRun ==
    /\ pc \in {"done", "raised"}
    /\ run < MaxRuns
    /\ pc' = "start"
    /\ UNCHANGED <<cacheVars, files, run, now, progVars, outcome, XYZ, histVars>>

Next ==
    \/ LoadData
    \/ APICall
    \/ LoopIter
    \/ WaitSpin
    \/ WaitExit
    \/ Request
    \/ Tick
    \/ ResponseDict
    \/ ResponseStatus
    \/ ResponseException
    \/ Check
    \/ Return
    \/ StorePlot
    \/ NewRun

Spec == Init /\ [][Next]_vars

\* One run of the script in which every step of the program that is enabled
\* is eventually taken: each request attempt returns and the clock advances
\* while the busy wait spins.
FetchStep ==
    \/ LoopIter
    \/ WaitSpin
    \/ WaitExit
    \/ Request
    \/ ResponseDict
    \/ ResponseStatus
    \/ ResponseException
    \/ Check
    \/ Return

NextLive ==
    \/ LoadData
    \/ APICall
    \/ FetchStep
    \/ Tick
    \/ StorePlot

LiveSpec == Init /\ [][NextLive]_vars /\ WF_vars(FetchStep)

\* --------------------------------------------- the cache used concurrently
\* The arguments of a call of store_plot: columns of 0..MaxRows values each,
\* not necessarily of the same length, and the overwrite flag.
Versions == {1, 2}

Column(v, c, n) == [i \in 1..n |-> 100 * v + 10 * c + i]

StoreInputs ==
    {[X |-> Column(v, 1, a), Y |-> Column(v, 2, b), Z |-> Column(v, 3, c),
      overwrite |-> o] :
        v \in Versions, a \in 0..MaxRows, b \in 0..MaxRows, c \in 0..MaxRows,
        o \in BOOLEAN}

\* the file after the first k lines of record rec have reached it; line 1 is
\* the header, k = 0 is the file open(path, 'w') has just truncated
PartialFile(rec, k) ==
    [exists |-> TRUE,
     header |-> IF k >= 1 THEN rec.header ELSE <<>>,
     rows |-> SubSeq(rec.rows, 1, k - 1)]

DiskLines(file) == IF file.header = <<>> THEN 0 ELSE 1 + Len(file.rows)

\* the record the call in progress is writing
NewRecord == store_plot(wargs.X, wargs.Y, wargs.Z, prevFile, wargs.overwrite)

\* store_plot lines 25-28 and 34: the tests and open(path, 'w')
StoreCall ==
    /\ wpc = "idle"
    /\ \E a \in StoreInputs :
         /\ wargs' = a
         /\ IF ShouldWrite(a.X, a.Y, a.Z, files[PlotName], a.overwrite)
            THEN /\ files' = [files EXCEPT ![PlotName] =
                                PartialFile(NoFile, 0)]
                 /\ wpc' = "writing"
            ELSE /\ files' = files
                 /\ wpc' = "returned"
    /\ wlines' = 0
    /\ wret' = FALSE
    /\ prevFile' = files[PlotName]
    /\ rres' = NoResult
    /\ rmid' = FALSE
    /\ UNCHANGED pipeVars

\* store_plot lines 30-32: one writerow, into the buffer of the file object
StoreWrite ==
    /\ wpc = "writing"
    /\ wlines < Len(wargs.X) + 1
    /\ wlines' = wlines + 1
    /\ UNCHANGED <<files, wpc, wargs, wret, prevFile, rres, rmid, pipeVars>>

\* the file object writes its buffer out
StoreFlush ==
    /\ wpc = "writing"
    /\ DiskLines(files[PlotName]) < wlines
    /\ files' = [files EXCEPT ![PlotName] = PartialFile(NewRecord, wlines)]
    /\ UNCHANGED <<cacheVars, pipeVars>>

\* store_plot lines 28 and 33: the with block closes the file, return True
StoreClose ==
    /\ wpc = "writing"
    /\ wlines = Len(wargs.X) + 1
    /\ files' = [files EXCEPT ![PlotName] = NewRecord]
    /\ wret' = TRUE
    /\ wpc' = "returned"
    /\ UNCHANGED <<wargs, wlines, prevFile, rres, rmid, pipeVars>>

\* store_plot lines 28-32 do not complete: an exception in the with block
\* (the buffer is written out on close) or the process is killed (it is not)
StoreInterrupt ==
    /\ wpc = "writing"
    /\ \E closed \in BOOLEAN :
         files' = IF closed
                  THEN [files EXCEPT ![PlotName] =
                          PartialFile(NewRecord, wlines)]
                  ELSE files
    /\ wpc' = "interrupted"
    /\ UNCHANGED <<wargs, wlines, wret, prevFile, rres, rmid, pipeVars>>

\* the caller of store_plot goes on
StoreDone ==
    /\ wpc \in {"returned", "interrupted"}
    /\ wpc' = "idle"
    /\ UNCHANGED <<files, wargs, wlines, wret, prevFile, rres, rmid,
                   pipeVars>>

\* load_data lines 43-55, called by another process
CacheLoad ==
    /\ rres' = [called |-> TRUE,
                hit |-> CacheHit(files[PlotName]),
                cols |-> IF files[PlotName].exists
                         THEN load_data(files[PlotName])
                         ELSE <<<<>>, <<>>, <<>>>>]
    /\ rmid' = (wpc = "writing")
    /\ UNCHANGED <<files, wpc, wargs, wlines, wret, prevFile, pipeVars>>

NextCache ==
    \/ StoreCall
    \/ StoreWrite
    \/ StoreFlush
    \/ StoreClose
    \/ StoreInterrupt
    \/ StoreDone
    \/ CacheLoad

SpecCache == Init /\ [][NextCache]_vars

\* ------------------------------------------------------------ properties
Hit == filesAtStart[PlotName].exists

N == Len(coords)

CeilDiv(a, b) == (a + b - 1) \div b

EmptyXYZ == <<<<>>, <<>>, <<>>>>

\* the result the provider has for the i-th input coordinate
ResultFor(i) == Results(coords, 0)[i]

Location(c) == [lat |-> float(c[1]), lng |-> float(c[2])]

\* C1: when fetch returns normally for N coordinates, the returned sequence
\* has exactly N entries and entry i is the result for input coordinate i.
C1_FetchReturnsEveryCoordinate ==
    (pc \in {"store", "done"} /\ ~Hit) =>
        /\ Len(data) = N
        /\ \A i \in 1..Len(data) : data[i] = ResultFor(i)

\* C2: a pipeline run that missed the cache and did not fail returns and
\* caches a dataset of exactly nx * ny points in three equal-length columns.
C2_FullDatasetOrError ==
    (pc = "done" /\ ~Hit) =>
        /\ \A c \in 1..3 : Len(XYZ[c]) = dims[1] * dims[2]
        /\ files[PlotName].exists
        /\ Len(files[PlotName].rows) = dims[1] * dims[2]

\* C3: the first request of a batch is issued at least one second after the
\* start of the previous batch's request, and the first batch's request is
\* issued without any wait.
C3_MinIntervalBetweenBatches ==
    (pc = "request" /\ tried = 0) =>
        IF index = 0 THEN spins = 0 ELSE now - reqStart >= OneSecond

C3_Witness ==
    pc = "request" /\ tried = 0 /\ index = BATCH_SIZE /\ spins > 0

\* C4 as stated: a batch whose every attempt fails is tried MAX_RETRIES + 1
\* times before the retries-exhausted error.
MAX_RETRIES == RETRIES

C4_Original_RetriesPlusOneAttempts ==
    outcome = "TimeoutError" => tried = MAX_RETRIES + 1

\* C4 amended: a batch whose every attempt fails is tried exactly RETRIES
\* times (the first attempt included) and fetch then raises TimeoutError.
C4_ExactlyRetriesAttempts ==
    /\ fails <= RETRIES
    /\ fails = RETRIES =>
          /\ pc \in {"raised", "start"}
          /\ outcome = "TimeoutError"
          /\ tried = RETRIES
    /\ outcome = "TimeoutError" => (fails = RETRIES /\ tried = RETRIES)

C4_Witness ==
    pc = "raised" /\ outcome = "TimeoutError" /\ fails = RETRIES
        /\ nreq = RETRIES

\* C5: after a fatal answer (the retry budget exhausted, or a missing
\* elevation) fetch issues no further request and the caller gets no data,
\* not even the results of the batches that had succeeded.
C5_NothingAfterFatalFailure ==
    badAt # 0 =>
        /\ nreq = badAt
        /\ pc \in {"check", "raised", "start"}
        /\ outcome # "returned"
        /\ XYZ = EmptyXYZ
        /\ files = filesAtStart

C5_Witness ==
    /\ badKind = "exhausted"
    /\ pc = "raised"
    /\ Len(data) > 0
    /\ index + BATCH_SIZE < N

\* C6: an answer with a missing elevation makes fetch raise ValueError after
\* that single request: the batch is not requested again and none of its
\* points is in data.
C6_MissingElevationIsFatal ==
    badKind = "missing" =>
        /\ nreq = badAt
        /\ pc \in {"check", "raised", "start"}
        /\ pc # "check" => outcome = "ValueError"
        /\ \A k \in 1..Len(data) : \A m \in 1..Len(coords_url) :
              data[k].location # Location(coords_url[m])

C6_Witness ==
    /\ badKind = "missing"
    /\ pc = "raised"
    /\ outcome = "ValueError"
    /\ Len(data) > 0
    /\ Len(coords_url) = BATCH_SIZE

\* C7: a non-200 answer is followed by another request for the same batch,
\* and once an attempt within the budget succeeds the batch's results are in
\* data exactly once and fetch goes on without raising.
C7_RetryThenSucceed ==
    /\ (pc = "request" /\ tried > 0) =>
          /\ response.kind = "status"
          /\ fails = tried
          /\ coords_url # <<>>
          /\ outcome = "none"
    /\ (pc = "loop" /\ fails > 0) =>
          /\ outcome = "none"
          /\ Len(data) = index - Len(coords_url)
          /\ \A i \in 1..Len(data) : data[i] = ResultFor(i)
    /\ outcome = "TimeoutError" => fails = RETRIES

C7_Witness ==
    pc = "loop" /\ fails > 0 /\ Len(data) = BATCH_SIZE + 1 /\ index < N

\* C8: a request attempt that ends in a network-level exception does not
\* reach the caller of fetch while the batch has retry budget left.
C8_TransportErrorRetried ==
    outcome = "ConnectionError" => ~HasTriesLeft(tried)

\* C9: on an all-success transport a fetch of N >= 1 coordinates issues
\* exactly ceil(N / BATCH_SIZE) requests.
C9_RequestCount ==
    (pc \in {"store", "done"} /\ ~Hit /\ allOk /\ N >= 1) =>
        nreq = CeilDiv(N, BATCH_SIZE)

C9_Witness ==
    pc = "store" /\ allOk /\ N = BATCH_SIZE + 2 /\ nreq = 2

\* C10: a run that finds a cache record returns the columns of that record,
\* issues no request and does not write the record.
C10_CacheHitReturnsRecord ==
    (pc = "done" /\ Hit) =>
        /\ nreq = 0
        /\ writes = 0
        /\ files = filesAtStart
        /\ outcome = "returned"
        /\ \A c \in 1..3 :
              /\ Len(XYZ[c]) = Len(files[PlotName].rows)
              /\ \A i \in 1..Len(XYZ[c]) :
                    str(XYZ[c][i]) = files[PlotName].rows[i][c]

C10_Witness ==
    /\ pc = "done"
    /\ Hit
    /\ run = 2
    /\ Len(XYZ[1]) > 1
    /\ nreq = 0

\* C11: when grid generation or fetch fails in a run that missed the cache,
\* the run ends in that error and the cache is exactly as it was before the
\* run.
FailureSeen ==
    \/ GridFails(dims[1], dims[2])
    \/ response.kind = "exception"
    \/ badKind # "none"

ExpectedError ==
    IF GridFails(dims[1], dims[2]) THEN "ValueError"
    ELSE IF response.kind = "exception" THEN "ConnectionError"
    ELSE IF badKind = "exhausted" THEN "TimeoutError"
    ELSE "ValueError"

C11_FailureLeavesCacheUntouched ==
    (pc \in {"raised", "store", "done"} /\ ~Hit /\ FailureSeen) =>
        /\ pc = "raised"
        /\ outcome = ExpectedError
        /\ writes = 0
        /\ files = filesAtStart
        /\ XYZ = EmptyXYZ

C11_Witness ==
    /\ pc = "raised"
    /\ ~Hit
    /\ badKind = "exhausted"
    /\ outcome = "TimeoutError"
    /\ Len(data) > 0
    /\ ~files[PlotName].exists

\* C15: the grid holds nx * ny coordinates in row-major order: entry
\* i * nx + j is the j-th interpolated x with the i-th interpolated y, the
\* corners being center - size/2 and center + size/2.
C15_GridRowMajor ==
    (pc = "loop" /\ index = 0 /\ data = <<>>) =>
        LET nx == dims[1]
            ny == dims[2]
            xs == linspace(CenterCoords[1] - Width \div 2,
                           CenterCoords[1] + Width \div 2, nx)
            ys == linspace(CenterCoords[2] - Height \div 2,
                           CenterCoords[2] + Height \div 2, ny)
        IN  /\ Len(coords) = nx * ny
            /\ \A i \in 0..(ny - 1) : \A j \in 0..(nx - 1) :
                  coords[i * nx + j + 1] =
                      <<str(round7(xs[j + 1])), str(ys[i + 1])>>

C15_Witness ==
    /\ pc = "loop" /\ index = 0 /\ data = <<>>
    /\ dims[1] > 1 /\ dims[2] > 1
    /\ Len(coords) = dims[1] * dims[2]
    /\ coords[dims[1]][2] = coords[1][2]
    /\ coords[dims[1] + 1][2] # coords[1][2]
    /\ coords[2][1] # coords[1][1]

\* C16: for nx < 1 or ny < 1 the grid generator fails with an
\* invalid-argument error, so the run issues no request and writes no record.
C16_BadCountsFail ==
    (pc \in {"loop", "store", "done", "raised"} /\ ~Hit
        /\ (dims[1] < 1 \/ dims[2] < 1)) =>
        /\ pc = "raised"
        /\ outcome = "ValueError"
        /\ nreq = 0
        /\ files = filesAtStart

\* C17: every request carries at most BATCH_SIZE coordinates and the batches
\* requested during a successful fetch, concatenated in request order, are
\* exactly the input sequence.
C17_BatchesPartitionInput ==
    /\ maxBatch <= BATCH_SIZE
    /\ (pc \in {"store", "done"} /\ ~Hit) => sentCoords = coords

\* C18: any two requests of one fetch, retries included, start at least one
\* second apart.
C18_EveryRequestSpaced ==
    (pc = "request" /\ nreq > 0) => now - reqStart >= OneSecond

\* C20: fetch terminates: with every request attempt returning and the clock
\* advancing, a fetch that has started eventually returns its data or raises,
\* after at most RETRIES request attempts per batch, and the only ValueError
\* it raises is the one for a missing elevation (line 168), never the
\* trailing one of line 177.
InFetch == pc \in {"loop", "wait", "request", "inflight", "check"}

C20_FetchTerminates ==
    /\ [](tried <= RETRIES)
    /\ []((outcome = "ValueError" /\ ~GridFails(dims[1], dims[2]))
             => badKind = "missing")
    /\ InFetch ~> (pc \in {"store", "raised"})

C20_Witness ==
    /\ pc = "store"
    /\ outcome = "returned"
    /\ nreq > RETRIES
    /\ ~allOk
    /\ Len(data) = 2 * BATCH_SIZE + 1

\* C12: a load_data that runs while store_plot is writing returns a miss,
\* the complete previous record or the complete new record.
C12_AtomicForReaders ==
    (rres.called /\ rmid) =>
        \/ ~rres.hit
        \/ (prevFile.exists /\ rres.cols = load_data(prevFile))
        \/ rres.cols = <<wargs.X, wargs.Y, wargs.Z>>

EqualColumns == Len(wargs.X) = Len(wargs.Y) /\ Len(wargs.Y) = Len(wargs.Z)

C14_Original_NoOverwrite ==
    (wpc = "returned" /\ ~wargs.overwrite) =>
        IF prevFile.exists
        THEN ~wret /\ files[PlotName] = prevFile
        ELSE wret /\ files[PlotName].exists

\* C14 amended: as C14, the second half for columns of equal length.
C14_NoOverwrite ==
    (wpc = "returned" /\ ~wargs.overwrite) =>
        /\ prevFile.exists => (~wret /\ files[PlotName] = prevFile)
        /\ (~prevFile.exists /\ EqualColumns) =>
              /\ wret
              /\ files[PlotName].exists
              /\ files[PlotName].header = CSV_HEADER
              /\ Len(files[PlotName].rows) = Len(wargs.X)
              /\ \A i \in 1..Len(wargs.X) :
                    files[PlotName].rows[i] =
                        <<str(wargs.X[i]), str(wargs.Y[i]), str(wargs.Z[i])>>

C14_Witness ==
    /\ wpc = "returned"
    /\ ~wargs.overwrite
    /\ prevFile.exists
    /\ EqualColumns
    /\ Len(wargs.X) > 0
    /\ prevFile.rows # <<>>
    /\ ~wret

\* C19: after store_plot is interrupted the cache holds the complete previous
\* record or no record.
C19_NoPartialRecord ==
    wpc = "interrupted" =>
        (files[PlotName] = prevFile \/ ~files[PlotName].exists)

====
